---- MODULE Spec2Model ----
(***************************************************************************)
(* Model of src/main.py: the FastAPI application over the MongoDB          *)
(* collection `items`, the module-level haystack InMemoryDocumentStore and *)
(* the fixed-name output file Ollama_Response.docx.                        *)
(*                                                                         *)
(* Strings are sequences of one-character strings, so that ObjectId        *)
(* parsing, str() of an identifier and the case-insensitive $regex search  *)
(* are computed rather than assumed.                                       *)
(*                                                                         *)
(* The collection lives in an external database: besides the records the   *)
(* application inserts (whose _id is a str), it may hold a record that     *)
(* another client inserted under a real ObjectId, the only kind of record  *)
(* the ObjectId(item_id) filters of get_item, update_item and delete_item  *)
(* can match.  Init covers both an empty and such a populated collection.  *)
(*                                                                         *)
(* The /items handlers are one step each: every one of them makes a single *)
(* store call, except create_item, whose second call reads back a str-keyed*)
(* document that no other handler can modify or remove.  The composite     *)
(* handler is three steps, cut where other requests can run: the awaited   *)
(* search, the synchronous block up to the return, and the sending of the  *)
(* FileResponse.                                                           *)
(***************************************************************************)
EXTENDS Integers, Sequences, FiniteSets, TLC

\* ------------------------------------------------------------------ bounds
MaxDocs == 2        \* records the collection may hold at once
MaxGen  == 1        \* identifiers ObjectId() generates in one run

\* ------------------------------------------------------- program constants
PageSize  == 100    \* to_list(length=100)
OidHexLen == 24     \* bson.ObjectId: 12 bytes, 24 hexadecimal characters

\* ---------------------------------------------------------------- strings
LowerHexDigits == {"0","1","2","3","4","5","6","7","8","9","a","b","c","d","e","f"}
UpperHexDigits == {"A","B","C","D","E","F"}

\* str.lower() / the regex option "i" on one character
LowerChar(c) ==
    CASE c = "A" -> "a" [] c = "B" -> "b" [] c = "C" -> "c" [] c = "D" -> "d"
      [] c = "E" -> "e" [] c = "F" -> "f" [] c = "G" -> "g" [] c = "W" -> "w"
      [] c = "R" -> "r" [] OTHER -> c

Lower(s) == [i \in 1..Len(s) |-> LowerChar(s[i])]

\* a string of n copies of c followed by the characters of tail
Rep(c, n, tail) == [i \in 1..n |-> c] \o tail

\* ------------------------------------------------------------ bson.ObjectId
\* ObjectId.is_valid / ObjectId.__validate: a str of 24 hexadecimal characters
IsValidOid(s) ==
    /\ Len(s) = OidHexLen
    /\ \A i \in 1..Len(s) : s[i] \in LowerHexDigits \cup UpperHexDigits

\* ObjectId(item_id): the 12 bytes of bytes.fromhex(item_id); the binary
\* value is written here as its lower-case hexadecimal digits.
ObjectId(s) == [type |-> "ObjectId", val |-> Lower(s)]

\* a str used as _id (create_item stores str(ObjectId()) or custom_id)
StrId(s) == [type |-> "str", val |-> s]

\* str(item['_id'])
Str(id) == id.val

\* str(ObjectId()): the k-th identifier the process generates
GeneratedOid(k) == Rep("6", OidHexLen - 1, <<CASE k = 1 -> "1" [] k = 2 -> "2" [] k = 3 -> "3" [] OTHER -> "4">>)

\* ------------------------------------------------------------------ inputs
SeedHex      == Rep("a", OidHexLen - 1, <<"b">>)      \* a record another client inserted
SeedHexUpper == Rep("A", OidHexLen - 1, <<"B">>)      \* the same ObjectId, upper-case digits
AbsentHex    == Rep("0", OidHexLen - 1, <<"f">>)      \* well formed, matches no record
ShortId      == <<"x", "y", "z">>                     \* malformed: wrong length
NonHexId     == Rep("a", OidHexLen - 1, <<"g">>)      \* malformed: 24 characters, one not hex

PathIds   == {SeedHexUpper, AbsentHex, ShortId, NonHexId, GeneratedOid(1)}
CustomIds == {<<>>, ShortId, SeedHex}                 \* <<>> is custom_id = None / ""

RedWidget  == <<"R", "e", "d", " ", "W", "i", "d">>
BlueGadget == <<"b", "l", "u", "e", " ", "g", "a", "d">>

Items == { [name |-> <<"n", "1">>, description |-> RedWidget,  price |-> 1],
           [name |-> <<"n", "2">>, description |-> BlueGadget, price |-> 2] }

Words == { <<"w", "i", "d">>, <<"G", "A", "D">>, <<"g", "i", "z">> }

Answers == {"answer1", "answer2"}

Reqs == {1, 2}      \* composite requests that may be in flight together

\* ------------------------------------------------------------------- state
VARIABLES
    collection,      \* db.items, in natural order: a sequence of documents
    genCount,        \* how many identifiers ObjectId() has generated
    document_store,  \* the module-level InMemoryDocumentStore: sequence of [id, content]
    file,            \* contents of Ollama_Response.docx, or NoFile
    req,             \* per in-flight composite request: its position and locals
    resp             \* the last response the server sent

vars == <<collection, genCount, document_store, file, req, resp>>

NoFile == [query |-> <<>>, answer |-> "none"]
None   == [none |-> TRUE]      \* Python's None
NoResp == [route |-> "none", arg |-> <<>>, status |-> 0, kind |-> "none", cause |-> "none", body |-> None]
Idle   == [pc |-> "idle", word |-> <<>>, items |-> <<>>, answer |-> "none"]

\* a record another client of the database inserted: _id is a real ObjectId
SeedDoc == [_id |-> ObjectId(SeedHex), name |-> <<"s">>, description |-> RedWidget, price |-> 3]

InitialCollections == { <<>>, <<SeedDoc>> }

Init ==
    /\ collection \in InitialCollections
    /\ genCount = 0
    /\ document_store = <<>>
    /\ file = NoFile
    /\ req = [r \in Reqs |-> Idle]
    /\ resp = NoResp

\* ------------------------------------------------------ responses, errors
\* raise HTTPException(status_code=404, ...) inside the try block
NotFound404 == [status |-> 404, kind |-> "HTTPException", cause |-> "HTTPException404", body |-> None]

\* a normal return
Ok200(body) == [status |-> 200, kind |-> "ok", cause |-> "none", body |-> body]

\* an except clause that names only the driver's errors: bson's InvalidId
\* leaves the handler unhandled
ExceptPyMongoError(e) ==
    [status |-> 500, kind |-> IF e.cause = "InvalidId" THEN "unhandled" ELSE "HTTPException",
     cause |-> e.cause, body |-> None]

\* except Exception as e: raise HTTPException(status_code=500, detail=... str(e)).
\* HTTPException is a subclass of Exception, so the 404 raised in the try
\* block is caught here as well and replaced by a 500.
ExceptException(e) == [status |-> 500, kind |-> "HTTPException", cause |-> e.cause, body |-> None]

\* an exception of the given class raised inside the try block
Raised(name) == [status |-> 0, kind |-> "exception", cause |-> name, body |-> None]

\* the response of a handler whose try block ended in `result`
Respond(result) == IF result.kind = "ok" THEN result ELSE ExceptException(result)

\* ItemInDB(**item): pydantic needs name, description, price and id; a key
\* that is not a field (such as _id) is ignored.
ItemInDBValid(doc) == {"name", "description", "price", "id"} \subseteq DOMAIN doc

\* the ItemInDB built from a document that validates
ItemInDB(doc) == [name |-> doc.name, description |-> doc.description, price |-> doc.price, id |-> doc.id]

\* the result of `return ItemInDB(**doc)` inside the try block
ReturnItemInDB(doc) == IF ItemInDBValid(doc) THEN Ok200(ItemInDB(doc)) ELSE Raised("ValidationError")

\* ------------------------------------------------------------- collection
Take(seq, n) == SubSeq(seq, 1, IF Len(seq) < n THEN Len(seq) ELSE n)

\* positions of the documents whose _id equals id (type and value)
IndexOf(coll, id) == {i \in 1..Len(coll) : coll[i]._id = id}

FirstIndex(coll, id) == CHOOSE i \in IndexOf(coll, id) : \A j \in IndexOf(coll, id) : i <= j

\* collection.find_one({"_id": id}): the document or None
find_one(coll, id) == IF IndexOf(coll, id) = {} THEN None ELSE coll[FirstIndex(coll, id)]

Remove(seq, i) == SubSeq(seq, 1, i - 1) \o SubSeq(seq, i + 1, Len(seq))

\* a $set that also writes the path parameter as _id
SetFieldsAndId(doc, item) ==
    [doc EXCEPT !.name = item.name, !.description = item.description, !.price = item.price,
                !._id = StrId(Str(doc._id))]

\* {"$set": item.model_dump()} applied to one document
SetFields(doc, item) ==
    [doc EXCEPT !.name = item.name, !.description = item.description, !.price = item.price]

\* find_one_and_update(filter, {"$set": ...}): the collection afterwards
UpdateOne(coll, id, item) ==
    IF IndexOf(coll, id) = {} THEN coll
    ELSE [coll EXCEPT ![FirstIndex(coll, id)] = SetFields(@, item)]

\* find_one_and_delete(filter): the collection afterwards
DeleteOne(coll, id) ==
    IF IndexOf(coll, id) = {} THEN coll ELSE Remove(coll, FirstIndex(coll, id))

\* every store call may fail on a transport or database error
StoreOutcomes == {"ok", "unavailable"}

Reply(route, arg, result) == [route |-> route, arg |-> arg] @@ Respond(result)

\* ---------------------------------------------------------------- handlers
\* GET /
read_root ==
    /\ resp' = Reply("read_root", <<>>, Ok200(None))
    /\ UNCHANGED <<collection, genCount, document_store, file, req>>

\* GET /items/
get_items ==
    \E store \in StoreOutcomes :
      LET items  == Take(collection, PageSize)
          result == IF store # "ok" THEN Raised("StoreUnavailable")
                    ELSE IF \E i \in 1..Len(items) : ~ItemInDBValid(items[i])
                         THEN Raised("ValidationError")
                         ELSE Ok200([i \in 1..Len(items) |-> ItemInDB(items[i])])
      IN  /\ resp' = Reply("get_items", <<>>, result)
          /\ UNCHANGED <<collection, genCount, document_store, file, req>>

\* the try block of get_item
get_item_try(item_id, store) ==
    IF ~IsValidOid(item_id) THEN Raised("InvalidId")
    ELSE IF store # "ok" THEN Raised("StoreUnavailable")
    ELSE LET item == find_one(collection, ObjectId(item_id))
         IN  IF item = None THEN NotFound404 ELSE ReturnItemInDB(item)

\* GET /items/{item_id}
get_item(item_id) ==
    \E store \in StoreOutcomes :
      /\ resp' = Reply("get_item", item_id, get_item_try(item_id, store))
      /\ UNCHANGED <<collection, genCount, document_store, file, req>>

\* POST /items/
create_item(item, custom_id) ==
    \E store1 \in StoreOutcomes, store2 \in StoreOutcomes :
      LET generated == custom_id = <<>>
          id        == IF generated THEN StrId(GeneratedOid(genCount + 1)) ELSE StrId(custom_id)
          item_data == [name |-> item.name, description |-> item.description,
                        price |-> item.price, _id |-> id]
          inserted  == store1 = "ok" /\ IndexOf(collection, id) = {}
          after     == IF inserted THEN Append(collection, item_data) ELSE collection
          result    == IF store1 # "ok" THEN Raised("StoreUnavailable")
                       ELSE IF ~inserted THEN Raised("DuplicateKeyError")
                       ELSE IF store2 # "ok" THEN Raised("StoreUnavailable")
                       ELSE LET created_item == find_one(after, id)
                            IN  IF created_item = None THEN Raised("TypeError")
                                ELSE ReturnItemInDB(created_item)
      IN  /\ generated => genCount < MaxGen
          /\ Len(after) <= MaxDocs
          /\ genCount' = IF generated THEN genCount + 1 ELSE genCount
          /\ collection' = after
          /\ resp' = Reply("create_item", Str(id), result) @@ [item |-> item]
          /\ UNCHANGED <<document_store, file, req>>

\* PUT /items/{item_id}
update_item(item_id, item) ==
    \E store \in StoreOutcomes :
      LET applied == IsValidOid(item_id) /\ store = "ok"
          after   == IF applied THEN UpdateOne(collection, ObjectId(item_id), item) ELSE collection
          result  == IF ~IsValidOid(item_id) THEN Raised("InvalidId")
                     ELSE IF store # "ok" THEN Raised("StoreUnavailable")
                     ELSE LET updated_item == find_one(after, ObjectId(item_id))
                          IN  IF updated_item = None THEN NotFound404
                              ELSE ReturnItemInDB(updated_item)
      IN  /\ collection' = after
          /\ resp' = Reply("update_item", item_id, result) @@ [item |-> item]
          /\ UNCHANGED <<genCount, document_store, file, req>>

\* DELETE /items/{item_id}
delete_item(item_id) ==
    \E store \in StoreOutcomes :
      LET applied == IsValidOid(item_id) /\ store = "ok"
          after   == IF applied THEN DeleteOne(collection, ObjectId(item_id)) ELSE collection
          result  == IF ~IsValidOid(item_id) THEN Raised("InvalidId")
                     ELSE IF store # "ok" THEN Raised("StoreUnavailable")
                     ELSE LET deleted_item == find_one(collection, ObjectId(item_id))
                          IN  IF deleted_item = None THEN NotFound404
                              ELSE ReturnItemInDB(deleted_item)
      IN  /\ collection' = after
          /\ resp' = Reply("delete_item", item_id, result)
          /\ UNCHANGED <<genCount, document_store, file, req>>

NextItems ==
    \/ read_root
    \/ get_items
    \/ \E id \in PathIds : get_item(id)
    \/ \E item \in Items, custom_id \in CustomIds : create_item(item, custom_id)
    \/ \E id \in PathIds, item \in Items : update_item(id, item)
    \/ \E id \in PathIds : delete_item(id)

\* ------------------------------------------------- the composite endpoint
\* {"description": {"$regex": word, "$options": "i"}} for a word without
\* regex metacharacters: the word occurs in the text, letter case ignored
RegexSearchI(word, text) ==
    \E k \in 0..(Len(text) - Len(word)) :
        \A j \in 1..Len(word) : LowerChar(text[k + j]) = LowerChar(word[j])

\* collection.find({"description": {"$regex": word, "$options": "i"}}).to_list(length=100)
FindByDescription(coll, word) ==
    Take(SelectSeq(coll, LAMBDA d : RegexSearchI(word, d.description)), PageSize)

\* [HaystackDocument(content=item['description'], id=str(item['_id'])) for item in items]
HaystackDocs(items) ==
    [i \in 1..Len(items) |-> [id |-> Str(items[i]._id), content |-> items[i].description]]

RECURSIVE write_documents(_, _)
\* InMemoryDocumentStore.write_documents(documents) with the default policy
\* (DuplicatePolicy.NONE, which this store treats as FAIL): documents are
\* stored one by one and the first id already present raises
\* DuplicateDocumentError, the documents stored before it staying stored.
write_documents(storage, docs) ==
    IF docs = <<>> THEN [storage |-> storage, ok |-> TRUE]
    ELSE IF \E i \in 1..Len(storage) : storage[i].id = Head(docs).id
         THEN [storage |-> storage, ok |-> FALSE]
         ELSE write_documents(Append(storage, Head(docs)), Tail(docs))

\* the outcomes of pipe.run (the Ollama call) and of doc.save (a save that
\* fails is one that could not open the file for writing)
RunOutcomes == {"ok", "generation_failed", "save_failed"}

CompositeReply(word, result) == Reply("generate_docx_from_query", word, result)

\* lines 57-58: the search, up to the await of to_list
GenSearch(r, word) ==
    \E store \in StoreOutcomes :
      /\ req[r].pc = "idle"
      /\ IF store = "ok"
         THEN /\ req' = [req EXCEPT ![r] = [Idle EXCEPT !.pc = "searched", !.word = word,
                                                        !.items = FindByDescription(collection, word)]]
              /\ UNCHANGED resp
         ELSE /\ resp' = CompositeReply(word, Raised("StoreUnavailable"))
              /\ UNCHANGED req
      /\ UNCHANGED <<collection, genCount, document_store, file>>

\* a response built from the request's own query and answer
StreamedOwnReport(r) == [query |-> req[r].word, answer |-> req[r].answer]

\* the FileResponse reads the fixed path when the response is sent
StreamedBody(r) == file

\* lines 60-99: from the check of the result to the return of the FileResponse.
\* Nothing here awaits, so no other request runs in between.  The locals
\* items and haystack_docs are dead once the documents are written.
GenRun(r) ==
    \E outcome \in RunOutcomes, ollama_answer \in Answers :
      LET word    == req[r].word
          items   == req[r].items
          written == write_documents(document_store, HaystackDocs(items))
          saved   == [query |-> word, answer |-> ollama_answer]
          result  == IF items = <<>> THEN NotFound404
                     ELSE IF ~written.ok THEN Raised("DuplicateDocumentError")
                     ELSE IF outcome = "generation_failed" THEN Raised("GenerationError")
                     ELSE IF outcome # "ok" THEN Raised("OSError")
                     ELSE Ok200(None)
          reachedSave == items # <<>> /\ written.ok /\ outcome # "generation_failed"
      IN  /\ req[r].pc = "searched"
          /\ document_store' = IF items = <<>> THEN document_store ELSE written.storage
          /\ file' = IF reachedSave /\ outcome = "ok" THEN saved ELSE file
          /\ IF result.kind = "ok"
             THEN /\ req' = [req EXCEPT ![r] = [Idle EXCEPT !.pc = "responding",
                                                            !.word = word,
                                                            !.answer = ollama_answer]]
                  /\ UNCHANGED resp
             ELSE /\ req' = [req EXCEPT ![r] = Idle]
                  /\ resp' = CompositeReply(word, result)
          /\ UNCHANGED <<collection, genCount>>

\* the FileResponse is sent: the file is read from the fixed path
GenStream(r) ==
    /\ req[r].pc = "responding"
    /\ resp' = CompositeReply(req[r].word, Ok200(StreamedBody(r)))
    /\ req' = [req EXCEPT ![r] = Idle]
    /\ UNCHANGED <<collection, genCount, document_store, file>>

NextComposite ==
    \/ \E r \in Reqs, word \in Words : GenSearch(r, word)
    \/ \E r \in Reqs : GenRun(r)
    \/ \E r \in Reqs : GenStream(r)

Next == NextItems \/ NextComposite

Spec == Init /\ [][Next]_vars

SpecItems == Init /\ [][NextItems]_vars

\* the composite endpoint over records created by POST /items/ without custom_id
NextDocx ==
    \/ \E item \in Items : create_item(item, <<>>)
    \/ NextComposite

SpecDocx == Init /\ [][NextDocx]_vars
\* ------------------------------------------------------------ properties
StoreFailed(r) == r.cause = "StoreUnavailable"

\* the identifiers of the collection, in natural order
IdsOf(coll) == [i \in 1..Len(coll) |-> coll[i]._id]

\* the documents a client addresses by the identifier string s
AddressedBy(coll, s) == {i \in 1..Len(coll) : Str(coll[i]._id) = s}

GeneratedSoFar == {GeneratedOid(k) : k \in 1..genCount}

\* C1: a POST /items/ without custom_id answers 200 with the posted name,
\* description and price and the assigned identifier, and a GET /items/{id}
\* with an assigned identifier answers 200 with the stored record and that id
\* (store failures apart).
C1_PostThenGetRoundTrip ==
    /\ (resp.route = "create_item" /\ resp.arg \in GeneratedSoFar /\ ~StoreFailed(resp))
          => /\ resp.status = 200
             /\ resp.body = [name |-> resp.item.name, description |-> resp.item.description,
                             price |-> resp.item.price, id |-> resp.arg]
    /\ (resp.route = "get_item" /\ resp.arg \in GeneratedSoFar /\ ~StoreFailed(resp))
          => /\ resp.status = 200
             /\ \E i \in AddressedBy(collection, resp.arg) :
                   resp.body = [name |-> collection[i].name,
                                description |-> collection[i].description,
                                price |-> collection[i].price, id |-> resp.arg]

\* C2: a PUT /items/{id} with a well-formed identifier that matches no record
\* answers 404 and leaves the collection as it was.
C2_PutMissingIs404 ==
    [][(/\ resp'.route = "update_item"
        /\ update_item(resp'.arg, resp'.item)
        /\ IsValidOid(resp'.arg)
        /\ find_one(collection, ObjectId(resp'.arg)) = None
        /\ ~StoreFailed(resp'))
          => (resp'.status = 404 /\ collection' = collection)]_vars

\* C3: a DELETE /items/{id} of a record that exists answers 200 with the
\* record's former representation and removes it; a DELETE of the same
\* identifier right after it answers 404.
C3_DeleteTwice200Then404 ==
    [][(/\ resp'.route = "delete_item"
        /\ delete_item(resp'.arg)
        /\ ~StoreFailed(resp'))
          => /\ \A i \in AddressedBy(collection, resp'.arg) :
                  /\ resp'.status = 200
                  /\ resp'.body = [name |-> collection[i].name,
                                   description |-> collection[i].description,
                                   price |-> collection[i].price, id |-> resp'.arg]
                  /\ collection' = Remove(collection, i)
             /\ (resp.route = "delete_item" /\ resp.arg = resp'.arg /\ resp.status = 200)
                  => resp'.status = 404]_vars

\* C4: a GET /items/{id} with a well-formed identifier that matches no record
\* answers 404, and a GET answers 500 only for a failure other than not-found.
C4_GetMissingIs404 ==
    [][(/\ resp'.route = "get_item"
        /\ get_item(resp'.arg)
        /\ ~StoreFailed(resp'))
          => /\ (IsValidOid(resp'.arg) /\ find_one(collection, ObjectId(resp'.arg)) = None)
                   => resp'.status = 404
             /\ resp'.status = 500 => resp'.cause # "HTTPException404"]_vars

\* C5: a composite request whose search matched no record answers 404, obtains
\* no answer and leaves the output file alone; it answers 500 only when a
\* downstream step failed, never for not-found.
C5_NoMatchIs404 ==
    [][\A r \in Reqs :
         GenRun(r)
            => /\ req[r].items = <<>>
                     => (resp'.status = 404 /\ file' = file /\ req'[r].answer = "none")
               /\ (resp' # resp /\ resp'.status = 500) => resp'.cause # "HTTPException404"]_vars

\* C6: a GET /items/{id} with a malformed identifier ends in an HTTP error
\* response raised by the handler, not in an unhandled exception, and leaves
\* the collection and every other piece of server state as it was.
C6_MalformedIdFailsCleanly ==
    [][(/\ resp'.route = "get_item"
        /\ get_item(resp'.arg)
        /\ ~IsValidOid(resp'.arg))
          => /\ resp'.kind = "HTTPException"
             /\ resp'.status \in 400..599
             /\ UNCHANGED <<collection, genCount, document_store, file, req>>]_vars

\* a malformed GET has been answered
C6_Witness ==
    /\ resp.route = "get_item"
    /\ ~IsValidOid(resp.arg)
    /\ resp.cause = "InvalidId"
    /\ resp.status = 500

\* C7: no step changes the identifier of an existing record (identifiers are
\* only added by an insert or removed by a delete), and a PUT /items/{id}
\* that matches a record replaces exactly its name, description and price,
\* keeping its identifier and every other record.
C7_IdentifierImmutable ==
    [][/\ \/ collection' = collection
          \/ IdsOf(collection') = IdsOf(collection)
          \/ \E x \in {StrId(s) : s \in CustomIds \cup {GeneratedOid(genCount + 1)}} :
                IdsOf(collection') = Append(IdsOf(collection), x)
          \/ \E i \in 1..Len(collection) : IdsOf(collection') = Remove(IdsOf(collection), i)
       /\ (/\ resp'.route = "update_item"
           /\ update_item(resp'.arg, resp'.item)
           /\ IsValidOid(resp'.arg)
           /\ ~StoreFailed(resp')
           /\ IndexOf(collection, ObjectId(resp'.arg)) # {})
             => LET k    == FirstIndex(collection, ObjectId(resp'.arg))
                    item == resp'.item
                IN  /\ Len(collection') = Len(collection)
                    /\ \A i \in 1..Len(collection) : i # k => collection'[i] = collection[i]
                    /\ DOMAIN collection'[k] = DOMAIN collection[k]
                    /\ collection'[k]._id = collection[k]._id
                    /\ collection'[k].name = item.name
                    /\ collection'[k].description = item.description
                    /\ collection'[k].price = item.price]_vars

\* a PUT has matched a record and replaced its fields
C7_Witness ==
    /\ resp.route = "update_item"
    /\ resp.cause = "ValidationError"
    /\ \E i \in 1..Len(collection) :
          /\ collection[i]._id = ObjectId(resp.arg)
          /\ collection[i].name = resp.item.name
          /\ collection[i].description = resp.item.description
          /\ collection[i].price = resp.item.price
          /\ collection[i].name # SeedDoc.name

\* C8: in every composite request that reaches the pipeline the corpus the
\* retriever ranks is exactly that request's own search result, and the
\* request does not fail because an earlier request indexed the same records.
C8_IndexIsPerRequest ==
    [][\A r \in Reqs :
         (GenRun(r) /\ req[r].items # <<>>)
            => /\ document_store' = HaystackDocs(req[r].items)
               /\ ~(resp' # resp /\ resp'.cause = "DuplicateDocumentError")]_vars

\* C9: every composite request that reaches the save overwrites the one
\* output file with its own query and answer, whatever other request is in
\* flight, and the response streams whatever the file holds when it is sent.
C9_LastWriterWins ==
    [][\A r \in Reqs :
         /\ (req[r].pc = "searched" /\ req'[r].pc = "responding" /\ GenRun(r))
               => file' = [query |-> req[r].word, answer |-> req'[r].answer]
         /\ (req[r].pc = "responding" /\ req'[r].pc = "idle" /\ GenStream(r))
               => (resp'.status = 200 /\ resp'.body = file)]_vars

\* a request was answered with the report another request wrote
C9_Witness ==
    /\ resp.route = "generate_docx_from_query"
    /\ resp.status = 200
    /\ resp.body \in [query : Words, answer : Answers]
    /\ resp.body.query # resp.arg

\* C10: a POST, PUT or DELETE on /items that answers 404 or 500 leaves the
\* collection exactly as it was.
C10_ErrorLeavesStoreUnchanged ==
    [][(/\ resp'.status \in {404, 500}
        /\ \/ resp'.route = "create_item" /\ \E custom_id \in CustomIds : create_item(resp'.item, custom_id)
           \/ resp'.route = "update_item" /\ update_item(resp'.arg, resp'.item)
           \/ resp'.route = "delete_item" /\ delete_item(resp'.arg))
          => collection' = collection]_vars
====
